---- MODULE Spec2Model ----
(***************************************************************************)
(* Scaleway serverless modules: scaleway_container,                        *)
(* scaleway_function_namespace, scaleway_function_namespace_info and       *)
(* scaleway_container_registry_info.                                       *)
(*                                                                         *)
(* One run of a module is a sequence of blocking calls on the Scaleway     *)
(* client (GET, POST, PATCH, DELETE, wait_to_complete_state_transition,    *)
(* warn) that ends in exit_json or in fail_json.  Each action below is one *)
(* such call together with the code that runs until the next call.         *)
(* A behaviour holds two runs: the first, and a second one that either     *)
(* follows the first on the same remote with the same inputs, or replays   *)
(* it on the first run's listing with check mode flipped or with other     *)
(* secret values.                                                          *)
(*                                                                         *)
(* JSON values are strings ("None" is Python's None), except the value of  *)
(* secret_environment_variables, which is a list in the requests and the   *)
(* redaction string on output: it is kept as a tagged value (JsonList,     *)
(* JsonString).                                                            *)
(***************************************************************************)
EXTENDS Integers, Sequences, FiniteSets, TLC

VARIABLES
    module,      \* the module that runs
    params,      \* module.params of the current run (check_mode included)
    remote,      \* the resources held by the provider, in listing order
    nextId,      \* number of the next resource the provider creates
    pc,          \* position of the current run
    cn_list,     \* cn_list / fn_list: the listing the current run read
    target,      \* target_cn / target_fn, or the creation response's json
    payload,     \* playload_cn / playload_fn or patch_payload of the pending request
    response,    \* the last HTTP response: [ok, json]
    changed,     \* the strategy's changed flag
    calls,       \* the calls the current run issued on the client, in order
    warnings,    \* the warnings the current run handed to the host
    result,      \* what the run gave the host: exit_json or fail_json
    run,         \* "first" or "second"
    variant,     \* how the second run relates to the first
    first,       \* the first run, once over: its params, calls, warnings, result
    listing0     \* the listing the first run started from

vars == <<module, params, remote, nextId, pc, cn_list, target, payload, response,
          changed, calls, warnings, result, run, variant, first, listing0>>

-----------------------------------------------------------------------------
(* Bounds of the model.                                                    *)

MaxRemote == 2

-----------------------------------------------------------------------------
(* Values.                                                                 *)

None == "None"

EmptyDict == [x \in {} |-> None]

JsonList(items) == [type |-> "array", string |-> "", array |-> items]

JsonString(s) == [type |-> "string", string |-> s, array |-> <<>>]

SENSITIVE_VALUE == JsonString("SENSITIVE_VALUE")

Max(S) == CHOOSE x \in S : \A y \in S : y <= x

IdOf(n) == <<"id1", "id2", "id3", "id4", "id5", "id6", "id7", "id8">>[n]

Modules == {"container", "function_namespace",
            "function_namespace_info", "container_registry_info"}

Managed == {"container", "function_namespace"}

Info == {"function_namespace_info", "container_registry_info"}

-----------------------------------------------------------------------------
(* Constants of the modules.                                               *)

\* scaleway_container.py: STABLE_STATES
STABLE_STATES_cn == {"ready", "created", "absent"}

\* scaleway_function_namespace.py: STABLE_STATES
STABLE_STATES_fn == {"ready", "absent"}

STABLE_STATES(m) == IF m = "container" THEN STABLE_STATES_cn ELSE STABLE_STATES_fn

\* scaleway_container.py: VERIFIABLE_MUTABLE_ATTRIBUTES
VERIFIABLE_MUTABLE_ATTRIBUTES_cn ==
    <<"description", "min_scale", "max_scale", "environment_variables",
      "memory_limit", "timeout", "privacy", "registry_image",
      "max_concurrency", "protocol", "port">>

\* scaleway_container.py: MUTABLE_ATTRIBUTES
MUTABLE_ATTRIBUTES_cn ==
    VERIFIABLE_MUTABLE_ATTRIBUTES_cn \o <<"secret_environment_variables">>

\* scaleway_function_namespace.py: VERIFIABLE_MUTABLE_ATTRIBUTES
VERIFIABLE_MUTABLE_ATTRIBUTES_fn == <<"description", "environment_variables">>

\* scaleway_function_namespace.py: MUTABLE_ATTRIBUTES
MUTABLE_ATTRIBUTES_fn ==
    VERIFIABLE_MUTABLE_ATTRIBUTES_fn \o <<"secret_environment_variables">>

VERIFIABLE_MUTABLE_ATTRIBUTES(m) ==
    IF m = "container" THEN VERIFIABLE_MUTABLE_ATTRIBUTES_cn
    ELSE VERIFIABLE_MUTABLE_ATTRIBUTES_fn

MUTABLE_ATTRIBUTES(m) ==
    IF m = "container" THEN MUTABLE_ATTRIBUTES_cn ELSE MUTABLE_ATTRIBUTES_fn

\* ("secret_environment_variables") without a trailing comma is a Python string,
\* not a tuple: iterating over it yields its characters, one at a time.
StringAsIterable ==
    <<"s", "e", "c", "r", "e", "t", "_",
      "e", "n", "v", "i", "r", "o", "n", "m", "e", "n", "t", "_",
      "v", "a", "r", "i", "a", "b", "l", "e", "s">>

\* scaleway_container.py: SENSITIVE_ATTRIBUTES, a parenthesised string
SENSITIVE_ATTRIBUTES_cn == StringAsIterable

\* scaleway_function_namespace.py: SENSITIVE_ATTRIBUTES, a one-element tuple
SENSITIVE_ATTRIBUTES_fn == <<"secret_environment_variables">>

\* scaleway_function_namespace_info.py: SENSITIVE_ATTRIBUTES, a parenthesised string
SENSITIVE_ATTRIBUTES_fn_info == StringAsIterable

\* scaleway_container_registry_info.py: SENSITIVE_ATTRIBUTES, a parenthesised string
SENSITIVE_ATTRIBUTES_cr_info == StringAsIterable

SENSITIVE_ATTRIBUTES(m) ==
    CASE m = "container" -> SENSITIVE_ATTRIBUTES_cn
      [] m = "function_namespace" -> SENSITIVE_ATTRIBUTES_fn
      [] m = "function_namespace_info" -> SENSITIVE_ATTRIBUTES_fn_info
      [] OTHER -> SENSITIVE_ATTRIBUTES_cr_info

\* the field of a resource that names its parent
ParentField(m) == IF m = "container" THEN "namespace_id" ELSE "project_id"

-----------------------------------------------------------------------------
(* Helpers of module_utils/scaleway.py, which the four modules import.     *)

Range(s) == {s[i] : i \in DOMAIN s}

\* filter_sensitive_attributes(container, attributes): every attribute of
\* `attributes` that the description holds is replaced by the redaction marker.
filter_sensitive_attributes(container, attributes) ==
    [k \in DOMAIN container |->
        IF k \in Range(attributes) THEN SENSITIVE_VALUE ELSE container[k]]

\* resource_attributes_should_be_changed(target, wished, verifiable_mutable_attributes,
\* mutable_attributes): when a verifiable attribute that is wished (not None)
\* differs from the target's, the payload holds every mutable attribute as
\* wished; otherwise it is empty.
resource_attributes_should_be_changed(tgt, wished, verifiable, mutable) ==
    LET diff == {a \in Range(verifiable) : wished[a] # None /\ tgt[a] # wished[a]}
    IN  IF diff # {} THEN [a \in Range(mutable) |-> wished[a]] ELSE EmptyDict

-----------------------------------------------------------------------------
(* Pure functions of the modules.                                          *)

\* the keys of a dict of secret variables, in insertion order
KeyOrder == <<"K1", "K2">>

\* dict.items(): the (key, value) pairs in insertion order
Items(d) ==
    LET keys == SelectSeq(KeyOrder, LAMBDA k : k \in DOMAIN d)
    IN  [i \in 1..Len(keys) |-> <<keys[i], d[keys[i]]>>]

\* [dict(key=var[0], value=var[1]) for var in secrets.items()]
SecretList(d) ==
    LET items == Items(d)
    IN  JsonList([i \in 1..Len(items) |-> [key |-> items[i][1], value |-> items[i][2]]])

payload_from_wished_cn(wished_cn) ==
    [namespace_id |-> wished_cn.namespace_id,
     name |-> wished_cn.name,
     description |-> wished_cn.description,
     min_scale |-> wished_cn.min_scale,
     max_scale |-> wished_cn.max_scale,
     environment_variables |-> wished_cn.environment_variables,
     secret_environment_variables |-> SecretList(wished_cn.secret_environment_variables),
     memory_limit |-> wished_cn.memory_limit,
     timeout |-> wished_cn.timeout,
     privacy |-> wished_cn.privacy,
     registry_image |-> wished_cn.registry_image,
     max_concurrency |-> wished_cn.max_concurrency,
     protocol |-> wished_cn.protocol,
     port |-> wished_cn.port,
     redeploy |-> wished_cn.redeploy]

\* payload_from_wished_fn with the name copied into the description
payload_from_wished_fn_name_as_description(wished_fn) ==
    [project_id |-> wished_fn.project_id,
     name |-> wished_fn.name,
     description |-> wished_fn.name,
     environment_variables |-> wished_fn.environment_variables,
     secret_environment_variables |-> SecretList(wished_fn.secret_environment_variables)]

payload_from_wished_fn(wished_fn) ==
    [project_id |-> wished_fn.project_id,
     name |-> wished_fn.name,
     description |-> wished_fn.description,
     environment_variables |-> wished_fn.environment_variables,
     secret_environment_variables |-> SecretList(wished_fn.secret_environment_variables)]

payload_from_wished(m, wished) ==
    IF m = "container" THEN payload_from_wished_cn(wished)
    ELSE payload_from_wished_fn(wished)

\* the del that removes nothing
Del_keeps(d, key) == d

\* del playload_cn["redeploy"]
Del(d, key) == [k \in DOMAIN d \ {key} |-> d[k]]

\* the lookup built without the last entry of the listing
cn_lookup_short(list) ==
    [n \in {list[i].name : i \in 1..(Len(list) - 1)} |->
        list[Max({i \in 1..(Len(list) - 1) : list[i].name = n})]]

\* dict((fn["name"], fn) for fn in cn_list): a later entry of the listing
\* replaces an earlier one of the same name
cn_lookup(list) ==
    [n \in {list[i].name : i \in DOMAIN list} |->
        list[Max({i \in DOMAIN list : list[i].name = n})]]

-----------------------------------------------------------------------------
(* The inputs: module.params and the provider's resources.                 *)

Descriptions == {"", "d1"}

\* a dict of secret variables: no variable, the variable K1, or K1 and K2
SecretDicts ==
    {EmptyDict, [k \in {"K1"} |-> "s1"],
     [k \in {"K1", "K2"} |-> IF k = "K1" THEN "s1" ELSE "s3"]}

\* the same variables with other values
OtherSecrets(d) == [k \in DOMAIN d |-> "s2"]

\* the (description, min_scale) a caller of scaleway_container wishes
WishedScaling == {<<"", "1">>, <<"d1", "1">>, <<"", None>>, <<"", "2">>}

\* module.params of scaleway_container (main's argument_spec)
ContainerParams ==
    {[state |-> st, check_mode |-> cm, namespace_id |-> "p1", name |-> "n1",
      description |-> w[1], min_scale |-> w[2], max_scale |-> "5",
      environment_variables |-> "env0", secret_environment_variables |-> sd,
      memory_limit |-> "256", container_timeout |-> "300s", privacy |-> "public",
      registry_image |-> "img", max_concurrency |-> "50", protocol |-> "http1",
      port |-> "8080", redeploy |-> rd] :
        st \in {"present", "absent"}, cm \in BOOLEAN, w \in WishedScaling,
        sd \in SecretDicts, rd \in BOOLEAN}

\* module.params of scaleway_function_namespace (main's argument_spec)
FunctionNamespaceParams ==
    {[state |-> st, check_mode |-> cm, project_id |-> "p1", name |-> "n1",
      description |-> d, environment_variables |-> "env0",
      secret_environment_variables |-> sd] :
        st \in {"present", "absent"}, cm \in BOOLEAN, d \in Descriptions,
        sd \in SecretDicts}

\* module.params of the two info modules (main's argument_spec)
InfoParams ==
    {[check_mode |-> cm, project_id |-> "p1", name |-> "n1"] : cm \in BOOLEAN}

ParamsOf(m) ==
    CASE m = "container" -> ContainerParams
      [] m = "function_namespace" -> FunctionNamespaceParams
      [] OTHER -> InfoParams

\* core: wished_container, built from module.params
wished_container(p) ==
    [state |-> p.state, namespace_id |-> p.namespace_id, name |-> p.name,
     description |-> p.description, min_scale |-> p.min_scale,
     max_scale |-> p.max_scale,
     environment_variables |-> p.environment_variables,
     secret_environment_variables |-> p.secret_environment_variables,
     memory_limit |-> p.memory_limit, timeout |-> p.container_timeout,
     privacy |-> p.privacy, registry_image |-> p.registry_image,
     max_concurrency |-> p.max_concurrency, protocol |-> p.protocol,
     port |-> p.port, redeploy |-> p.redeploy]

\* core: wished_function_namespace, built from module.params
wished_function_namespace(p) ==
    [state |-> p.state, project_id |-> p.project_id, name |-> p.name,
     description |-> p.description,
     environment_variables |-> p.environment_variables,
     secret_environment_variables |-> p.secret_environment_variables]

\* core of the info modules: the wished namespace or registry
wished_info(p) == [project_id |-> p.project_id, name |-> p.name]

Wished(m, p) ==
    CASE m = "container" -> wished_container(p)
      [] m = "function_namespace" -> wished_function_namespace(p)
      [] OTHER -> wished_info(p)

\* the secret variables a provider holds for a resource created earlier
StoredSecrets == JsonList(<<[key |-> "K1", value |-> "h0"]>>)

\* a container as the provider describes it
Container(name, parent, description) ==
    [id |-> "", name |-> name, namespace_id |-> parent, status |-> "ready",
     description |-> description, min_scale |-> "1", max_scale |-> "5",
     environment_variables |-> "env0",
     secret_environment_variables |-> StoredSecrets,
     memory_limit |-> "256", timeout |-> "300s", privacy |-> "public",
     registry_image |-> "img", max_concurrency |-> "50", protocol |-> "http1",
     port |-> "8080"]

\* a function namespace as the provider describes it
FunctionNamespace(name, parent, description) ==
    [id |-> "", name |-> name, project_id |-> parent, status |-> "ready",
     description |-> description, environment_variables |-> "env0",
     secret_environment_variables |-> StoredSecrets]

\* a container registry as the provider describes it
Registry(name, parent, description) ==
    [id |-> "", name |-> name, project_id |-> parent, status |-> "ready",
     description |-> description]

Resource(m, name, parent, description) ==
    CASE m = "container" -> Container(name, parent, description)
      [] m \in {"function_namespace", "function_namespace_info"} ->
            FunctionNamespace(name, parent, description)
      [] OTHER -> Registry(name, parent, description)

\* the resources a listing may hold: the wished name under the wished parent
\* with either description, the wished name under another parent, another name
ResourcePool(m) ==
    {Resource(m, "n1", "p1", ""), Resource(m, "n1", "p1", "d1"),
     Resource(m, "n1", "p2", ""), Resource(m, "n2", "p1", "")}

\* the listings of at most MaxRemote resources; the provider numbers them
Listings(m) ==
    UNION {{[i \in 1..n |-> [l[i] EXCEPT !.id = IdOf(i)]] :
                l \in [1..n -> ResourcePool(m)]} : n \in 0..MaxRemote}

-----------------------------------------------------------------------------
(* The provider, behind the Scaleway client.                               *)

\* the json of a response that is not ok
ErrorJson == [message |-> "error"]

\* the position in the listing of the resource with this id, 0 when gone
IndexOf(list, id) ==
    IF \E i \in DOMAIN list : list[i].id = id
    THEN CHOOSE i \in DOMAIN list : list[i].id = id
    ELSE 0

\* GET <api_path>/<id>: the resource as the provider holds it
RemoteRead(list, id) ==
    IF IndexOf(list, id) = 0 THEN ErrorJson ELSE list[IndexOf(list, id)]

\* POST <api_path>: the provider stores the attributes it is sent
RemoteCreated(m, body, id) ==
    [k \in DOMAIN body \cup {"id", "status"} |->
        CASE k = "id" -> id
          [] k = "status" -> "pending"
          [] OTHER -> body[k]]

\* PATCH <api_path>/<id>: the provider stores the attributes it is sent and
\* leaves alone those sent as null
RemotePatched(r, body) ==
    [k \in DOMAIN r |->
        CASE k = "status" -> "pending"
          [] k \in DOMAIN body /\ k # "redeploy" ->
                IF k # "secret_environment_variables" /\ body[k] = None
                THEN r[k] ELSE body[k]
          [] OTHER -> r[k]]

\* the listing with resource i replaced
Replace(list, i, r) == [list EXCEPT ![i] = r]

\* the listing without resource i
Remove(list, i) == SubSeq(list, 1, i - 1) \o SubSeq(list, i + 1, Len(list))

-----------------------------------------------------------------------------
(* The run.                                                                *)

NoResult == [failed |-> FALSE, changed |-> FALSE, resource |-> EmptyDict]

NoResponse == [ok |-> TRUE, json |-> EmptyDict]

\* a call on the client: the request and whether its response is ok
Call(method, path, data, ok) ==
    [method |-> method, path |-> path, data |-> data, ok |-> ok]

\* the check-mode descriptions of the two modules
StatusMessage(m, what) ==
    IF m = "container"
    THEN CASE what = "destroy" -> "Container would be destroyed"
           [] what = "create" -> "A container would be created."
           [] OTHER -> "Container attributes would be changed."
    ELSE CASE what = "destroy" -> "Function namespace would be destroyed"
           [] what = "create" -> "A function namespace would be created."
           [] OTHER -> "Function namespace attributes would be changed."

Init ==
    /\ module \in Modules
    /\ params \in ParamsOf(module)
    /\ remote \in Listings(module)
    /\ nextId = Len(remote) + 1
    /\ listing0 = remote
    /\ pc = "start"
    /\ cn_list = <<>>
    /\ target = EmptyDict
    /\ payload = EmptyDict
    /\ response = NoResponse
    /\ changed = FALSE
    /\ calls = <<>>
    /\ warnings = <<>>
    /\ result = NoResult
    /\ run = "first"
    /\ variant = "none"
    /\ first = [params |-> params, calls |-> <<>>, warnings |-> <<>>,
                result |-> NoResult]

\* exit_json that is not handed the strategy's changed flag
exit_json_unchanged(ch, summary) ==
    /\ result' = [failed |-> FALSE, changed |-> FALSE,
                  resource |-> filter_sensitive_attributes(summary,
                                    SENSITIVE_ATTRIBUTES(module))]
    /\ pc' = "done"

\* module.exit_json(changed=changed, <key>=filter_sensitive_attributes(summary,
\* SENSITIVE_ATTRIBUTES)): the end of core
exit_json(ch, summary) ==
    /\ result' = [failed |-> FALSE, changed |-> ch,
                  resource |-> filter_sensitive_attributes(summary,
                                    SENSITIVE_ATTRIBUTES(module))]
    /\ pc' = "done"

\* api.module.fail_json(msg=...), or an exception of a helper: the run ends
fail_json ==
    /\ result' = [failed |-> TRUE, changed |-> FALSE, resource |-> EmptyDict]
    /\ pc' = "failed"

\* absent_strategy with changed set before the lookup
absent_after_list_changed_first(m, lookup, wished, check_mode) ==
    IF wished.name \notin DOMAIN lookup
    THEN [to |-> "return", changed |-> TRUE, summary |-> EmptyDict,
          target |-> EmptyDict]
    ELSE IF check_mode
    THEN [to |-> "return", changed |-> TRUE,
          summary |-> [status |-> StatusMessage(m, "destroy")],
          target |-> lookup[wished.name]]
    ELSE [to |-> "absent_wait", changed |-> TRUE, summary |-> EmptyDict,
          target |-> lookup[wished.name]]

\* absent_strategy with changed set after the check-mode return
absent_after_list_changed_late(m, lookup, wished, check_mode) ==
    IF wished.name \notin DOMAIN lookup
    THEN [to |-> "return", changed |-> FALSE, summary |-> EmptyDict,
          target |-> EmptyDict]
    ELSE IF check_mode
    THEN [to |-> "return", changed |-> FALSE,
          summary |-> [status |-> StatusMessage(m, "destroy")],
          target |-> lookup[wished.name]]
    ELSE [to |-> "absent_wait", changed |-> TRUE, summary |-> EmptyDict,
          target |-> lookup[wished.name]]

\* absent_strategy deleting without the forced wait
absent_after_list_skips_wait(m, lookup, wished, check_mode) ==
    IF wished.name \notin DOMAIN lookup
    THEN [to |-> "return", changed |-> FALSE, summary |-> EmptyDict,
          target |-> EmptyDict]
    ELSE IF check_mode
    THEN [to |-> "return", changed |-> TRUE,
          summary |-> [status |-> StatusMessage(m, "destroy")],
          target |-> lookup[wished.name]]
    ELSE [to |-> "absent_delete", changed |-> TRUE, summary |-> EmptyDict,
          target |-> lookup[wished.name]]

\* absent_strategy without its check-mode return
absent_after_list_no_check(m, lookup, wished, check_mode) ==
    IF wished.name \notin DOMAIN lookup
    THEN [to |-> "return", changed |-> FALSE, summary |-> EmptyDict,
          target |-> EmptyDict]
    ELSE [to |-> "absent_wait", changed |-> TRUE, summary |-> EmptyDict,
          target |-> lookup[wished.name]]

\* absent_strategy, from the listing's response to the first wait: where the
\* run goes, with which changed flag, description and target
absent_after_list(m, lookup, wished, check_mode) ==
    IF wished.name \notin DOMAIN lookup
    THEN [to |-> "return", changed |-> FALSE, summary |-> EmptyDict,
          target |-> EmptyDict]
    ELSE IF check_mode
    THEN [to |-> "return", changed |-> TRUE,
          summary |-> [status |-> StatusMessage(m, "destroy")],
          target |-> lookup[wished.name]]
    ELSE [to |-> "absent_wait", changed |-> TRUE, summary |-> EmptyDict,
          target |-> lookup[wished.name]]

\* present_strategy, from the listing's response to the POST or the PATCH:
\* where the run goes, with which changed flag, description, target and payload
present_after_list(m, lookup, wished, check_mode) ==
    LET playload == payload_from_wished(m, wished) IN
    IF wished.name \notin DOMAIN lookup
    THEN IF check_mode
         THEN [to |-> "return", changed |-> TRUE,
               summary |-> [status |-> StatusMessage(m, "create")],
               target |-> EmptyDict, payload |-> playload]
         ELSE [to |-> "create", changed |-> TRUE, summary |-> EmptyDict,
               target |-> EmptyDict,
               payload |-> IF m = "container" THEN Del(playload, "redeploy")
                           ELSE playload]
    ELSE LET target_cn == lookup[wished.name]
             patch_payload ==
                 resource_attributes_should_be_changed(
                     target_cn, playload,
                     VERIFIABLE_MUTABLE_ATTRIBUTES(m), MUTABLE_ATTRIBUTES(m))
         IN  IF DOMAIN patch_payload = {}
             THEN [to |-> "return", changed |-> FALSE, summary |-> target_cn,
                   target |-> target_cn, payload |-> patch_payload]
             ELSE IF check_mode
             THEN [to |-> "return", changed |-> TRUE,
                   summary |-> [status |-> StatusMessage(m, "change")],
                   target |-> target_cn, payload |-> patch_payload]
             ELSE [to |-> "patch", changed |-> TRUE, summary |-> EmptyDict,
                   target |-> target_cn, payload |-> patch_payload]

\* absent_strategy: the listing (api.get, or fetch_all_resources in the
\* function-namespace module), the lookup by name, the check-mode return
absent_list ==
    /\ module \in Managed /\ pc = "start" /\ params.state = "absent"
    /\ \E ok \in BOOLEAN :
        /\ calls' = Append(calls, Call("GET", "", EmptyDict, ok))
        /\ response' = [ok |-> ok, json |-> IF ok THEN remote ELSE ErrorJson]
        /\ cn_list' = IF ok THEN remote ELSE <<>>
        /\ IF ~ok
           THEN fail_json /\ UNCHANGED <<target, changed>>
           ELSE LET d == absent_after_list(module, cn_lookup(remote),
                                           Wished(module, params), params.check_mode)
                IN  /\ target' = d.target
                    /\ changed' = d.changed
                    /\ IF d.to = "return"
                       THEN exit_json(d.changed, d.summary)
                       ELSE pc' = d.to /\ UNCHANGED result
    /\ UNCHANGED <<module, params, remote, nextId, payload, warnings, run,
                   variant, first, listing0>>

\* the provider's status of a resource once its transition is over
SettledStatus(m, at) ==
    CASE at = "absent_wait2" -> {"absent", "error"}
      [] at = "create_wait" /\ m = "container" -> {"created", "error"}
      [] OTHER -> {"ready", "error"}

\* the listing once resource `id` settled in status st
Settled(list, id, st) ==
    LET i == IndexOf(list, id) IN
    IF i = 0 THEN list
    ELSE IF st = "absent" THEN Remove(list, i)
    ELSE Replace(list, i, [list[i] EXCEPT !.status = st])

\* wait_to_complete_state_transition(api, resource, stable_states): it re-reads
\* the resource until its status is one of stable_states and returns, or raises.
\* Here: the provider settles the resource in status st, and the call is logged.
Waited(at, st) ==
    /\ remote' = Settled(remote, target.id, st)
    /\ calls' = Append(calls, Call("WAIT", target.id,
                                   [force_wait |-> at = "absent_wait"],
                                   st \in STABLE_STATES(module)))

\* a wait that is followed by another request
Wait(at, to) ==
    /\ pc = at
    /\ \E st \in SettledStatus(module, at) :
        /\ Waited(at, st)
        /\ IF st \in STABLE_STATES(module)
           THEN pc' = to /\ UNCHANGED result
           ELSE fail_json
    /\ UNCHANGED <<module, params, cn_list, nextId, target, payload, response, changed,
                   warnings, run, variant, first, listing0>>

\* absent_strategy: wait_to_complete_state_transition(..., force_wait=True)
absent_wait_forced == Wait("absent_wait", "absent_delete")

\* absent_strategy: api.delete and the check of its response
absent_delete ==
    /\ pc = "absent_delete"
    /\ \E ok \in BOOLEAN :
        LET i == IndexOf(remote, target.id)
            deleting == [remote[i] EXCEPT !.status = "deleting"]
        IN  /\ calls' = Append(calls, Call("DELETE", target.id, EmptyDict, ok))
            /\ IF ok
               THEN /\ remote' = Replace(remote, i, deleting)
                    /\ response' = [ok |-> TRUE, json |-> deleting]
                    /\ pc' = "absent_wait2"
                    /\ UNCHANGED result
               ELSE /\ response' = [ok |-> FALSE, json |-> ErrorJson]
                    /\ fail_json
                    /\ UNCHANGED remote
    /\ UNCHANGED <<module, params, cn_list, nextId, target, payload, changed, warnings,
                   run, variant, first, listing0>>

\* absent_strategy: the second wait and return changed, response.json
absent_wait_after ==
    /\ pc = "absent_wait2"
    /\ \E st \in SettledStatus(module, "absent_wait2") :
        /\ Waited("absent_wait2", st)
        /\ IF st \in STABLE_STATES(module)
           THEN exit_json(changed, response.json)
           ELSE fail_json
    /\ UNCHANGED <<module, params, cn_list, nextId, target, payload, response, changed,
                   warnings, run, variant, first, listing0>>

\* present_strategy: the listing (api.get, or fetch_all_resources in the
\* function-namespace module), the lookup by name, the diff, the check-mode returns
present_list ==
    /\ module \in Managed /\ pc = "start" /\ params.state = "present"
    /\ \E ok \in BOOLEAN :
        /\ calls' = Append(calls, Call("GET", "", EmptyDict, ok))
        /\ response' = [ok |-> ok, json |-> IF ok THEN remote ELSE ErrorJson]
        /\ cn_list' = IF ok THEN remote ELSE <<>>
        /\ IF ~ok
           THEN fail_json /\ UNCHANGED <<target, changed, payload>>
           ELSE LET d == present_after_list(module, cn_lookup(remote),
                                            Wished(module, params), params.check_mode)
                IN  /\ target' = d.target
                    /\ changed' = d.changed
                    /\ payload' = d.payload
                    /\ IF d.to = "return"
                       THEN exit_json(d.changed, d.summary)
                       ELSE pc' = d.to /\ UNCHANGED result
    /\ UNCHANGED <<module, params, remote, nextId, warnings, run, variant,
                   first, listing0>>

\* present_strategy: api.warn(playload), api.post and the check of its response;
\* the creation response's json is the resource the run then waits for and reads
present_create ==
    /\ pc = "create"
    /\ warnings' = Append(warnings, payload)
    /\ \E ok \in BOOLEAN :
        LET created == RemoteCreated(module, payload, IdOf(nextId))
        IN  /\ calls' = Append(calls, Call("POST", "", payload, ok))
            /\ IF ok
               THEN /\ remote' = Append(remote, created)
                    /\ nextId' = nextId + 1
                    /\ response' = [ok |-> TRUE, json |-> created]
                    /\ target' = created
                    /\ pc' = "create_wait"
                    /\ UNCHANGED result
               ELSE /\ response' = [ok |-> FALSE, json |-> ErrorJson]
                    /\ fail_json
                    /\ UNCHANGED <<remote, nextId, target>>
    /\ UNCHANGED <<module, params, cn_list, payload, changed, run, variant, first,
                   listing0>>

\* present_strategy: the wait after the creation
present_create_wait == Wait("create_wait", "read")

\* present_strategy: api.patch and the check of its response
present_patch ==
    /\ pc = "patch"
    /\ \E ok \in BOOLEAN :
        LET i == IndexOf(remote, target.id)
        IN  /\ calls' = Append(calls, Call("PATCH", target.id, payload, ok))
            /\ IF ok
               THEN /\ remote' = Replace(remote, i, RemotePatched(remote[i], payload))
                    /\ response' = [ok |-> TRUE,
                                    json |-> RemotePatched(remote[i], payload)]
                    /\ pc' = "patch_wait"
                    /\ UNCHANGED result
               ELSE /\ response' = [ok |-> FALSE, json |-> ErrorJson]
                    /\ fail_json
                    /\ UNCHANGED remote
    /\ UNCHANGED <<module, params, cn_list, nextId, target, payload, changed, warnings,
                   run, variant, first, listing0>>

\* present_strategy: the wait after the update
present_patch_wait == Wait("patch_wait", "read")

\* present_strategy returning the creation response or the listed entry
\* instead of what it read
present_read_returns_target ==
    /\ pc = "read"
    /\ \E ok \in BOOLEAN :
        LET json == IF ok THEN RemoteRead(remote, target.id) ELSE ErrorJson
        IN  /\ calls' = Append(calls, Call("GET", target.id, EmptyDict, ok))
            /\ response' = [ok |-> ok, json |-> json]
            /\ exit_json(changed, target)
    /\ UNCHANGED <<module, params, cn_list, remote, nextId, target, payload, changed,
                   warnings, run, variant, first, listing0>>

\* present_strategy: response = api.get(<api_path>/<id>); return changed, response.json
present_read ==
    /\ pc = "read"
    /\ \E ok \in BOOLEAN :
        LET json == IF ok THEN RemoteRead(remote, target.id) ELSE ErrorJson
        IN  /\ calls' = Append(calls, Call("GET", target.id, EmptyDict, ok))
            /\ response' = [ok |-> ok, json |-> json]
            /\ exit_json(changed, json)
    /\ UNCHANGED <<module, params, cn_list, remote, nextId, target, payload, changed,
                   warnings, run, variant, first, listing0>>

\* info_strategy reading the resource by the wished name when the lookup misses
info_after_list_reads_miss(lookup, wished) ==
    IF wished.name \notin DOMAIN lookup
    THEN [to |-> "info_read", target |-> [id |-> wished.name]]
    ELSE [to |-> "info_read", target |-> lookup[wished.name]]

\* info_strategy, from the listing's response to the read: a name that no
\* listed resource has ends the run in fail_json
info_after_list(lookup, wished) ==
    IF wished.name \notin DOMAIN lookup
    THEN [to |-> "fail", target |-> EmptyDict]
    ELSE [to |-> "info_read", target |-> lookup[wished.name]]

\* info_strategy: the listing, the lookup by name and the failure of a miss
info_list ==
    /\ module \in Info /\ pc = "start"
    /\ \E ok \in BOOLEAN :
        /\ calls' = Append(calls, Call("GET", "", EmptyDict, ok))
        /\ response' = [ok |-> ok, json |-> IF ok THEN remote ELSE ErrorJson]
        /\ cn_list' = IF ok THEN remote ELSE <<>>
        /\ IF ~ok
           THEN fail_json /\ UNCHANGED target
           ELSE LET d == info_after_list(cn_lookup(remote), Wished(module, params))
                IN  /\ target' = d.target
                    /\ IF d.to = "fail"
                       THEN fail_json
                       ELSE pc' = d.to /\ UNCHANGED result
    /\ UNCHANGED <<module, params, remote, nextId, payload, changed, warnings,
                   run, variant, first, listing0>>

\* info_strategy: the read of the target, the check of its response; core's
\* exit_json(changed=False, ...)
info_read ==
    /\ pc = "info_read"
    /\ \E ok \in BOOLEAN :
        /\ calls' = Append(calls, Call("GET", target.id, EmptyDict, ok))
        /\ response' = [ok |-> ok,
                        json |-> IF ok THEN RemoteRead(remote, target.id)
                                 ELSE ErrorJson]
        /\ IF ok
           THEN exit_json(FALSE, RemoteRead(remote, target.id))
           ELSE fail_json
    /\ UNCHANGED <<module, params, cn_list, remote, nextId, target, payload, changed,
                   warnings, run, variant, first, listing0>>

\* the second run: the same module again, on the remote the first run left
\* ("again"), or on the first run's listing in the other mode ("check") or
\* with other secret values ("secret")
NextRun ==
    /\ run = "first" /\ pc = "done" /\ module \in Managed
    /\ \E v \in {"again", "check", "secret"} :
        /\ variant' = v
        /\ CASE v = "again" -> params' = params /\ UNCHANGED <<remote, nextId>>
             [] v = "check" ->
                    /\ params' = [params EXCEPT !.check_mode = ~@]
                    /\ remote' = listing0
                    /\ nextId' = Len(listing0) + 1
             [] OTHER ->
                    /\ DOMAIN params.secret_environment_variables # {}
                    /\ params' = [params EXCEPT !.secret_environment_variables =
                                                    OtherSecrets(@)]
                    /\ remote' = listing0
                    /\ nextId' = Len(listing0) + 1
    /\ first' = [params |-> params, calls |-> calls, warnings |-> warnings,
                 result |-> result]
    /\ run' = "second"
    /\ pc' = "start"
    /\ cn_list' = <<>>
    /\ target' = EmptyDict
    /\ payload' = EmptyDict
    /\ response' = NoResponse
    /\ changed' = FALSE
    /\ calls' = <<>>
    /\ warnings' = <<>>
    /\ result' = NoResult
    /\ UNCHANGED <<module, listing0>>

Next ==
    \/ absent_list
    \/ absent_wait_forced
    \/ absent_delete
    \/ absent_wait_after
    \/ present_list
    \/ present_create
    \/ present_create_wait
    \/ present_patch
    \/ present_patch_wait
    \/ present_read
    \/ info_list
    \/ info_read
    \/ NextRun

Spec == Init /\ [][Next]_vars

-----------------------------------------------------------------------------
(* Properties.                                                             *)

Mutating == {"POST", "PATCH", "DELETE"}

Methods(cs) == {cs[i].method : i \in DOMAIN cs}

\* the listing was read and its response was ok
Listed == Len(calls) >= 1 /\ calls[1].ok

\* the names of the resources the run's listing holds
ListedNames == {cn_list[i].name : i \in DOMAIN cn_list}

\* C1: in check mode, a run of the container module or of the
\* function-namespace module issues the listing read and nothing else: no POST,
\* PATCH or DELETE, no wait; after the listing it has returned or failed.
C1_CheckModeOnlyLists ==
    (module \in Managed /\ params.check_mode) =>
        /\ Len(calls) <= 1
        /\ \A i \in DOMAIN calls : calls[i].method = "GET" /\ calls[i].path = ""
        /\ Len(calls) = 1 => pc \in {"done", "failed"}
        /\ remote = IF run = "second" /\ variant = "again"
                    THEN remote ELSE listing0

\* C1 witness: a check-mode run on a listing that holds the wished name has
\* returned a would-change indication after the listing alone.
C1_Witness ==
    /\ module \in Managed /\ params.check_mode /\ run = "first"
    /\ pc = "done" /\ result.changed /\ Len(calls) = 1
    /\ params.name \in ListedNames

\* C2: whenever the description a run returns holds secret_environment_variables,
\* its value is the redaction marker.
C2_SecretsRedacted ==
    (pc = "done" /\ "secret_environment_variables" \in DOMAIN result.resource) =>
        result.resource.secret_environment_variables = SENSITIVE_VALUE

\* C3: a run in which an HTTP response is not ok does not return a success
\* result to the host.
C3_NonOkResponseFails ==
    (\E i \in DOMAIN calls : calls[i].method # "WAIT" /\ ~calls[i].ok) =>
        pc # "done"

\* the wished value of every verifiable attribute is the target's
VerifiableEqual ==
    \A a \in Range(VERIFIABLE_MUTABLE_ATTRIBUTES(module)) :
        target[a] = Wished(module, params)[a]

\* the run found the wished name in its listing (state=present)
OnExisting ==
    /\ module \in Managed /\ params.state = "present" /\ Listed
    /\ params.name \in ListedNames

\* C4: state=present on an existing resource whose verifiable attributes all
\* equal the wished ones, the wished secret variables differing from the remote
\* ones: the run issues no PATCH and reports changed=false.
C4_SecretsAloneChangeNothing ==
    (/\ OnExisting /\ VerifiableEqual
     /\ target.secret_environment_variables #
            SecretList(params.secret_environment_variables)) =>
        /\ pc = "done" /\ ~result.changed
        /\ Len(calls) = 1

\* C4 witness: such a run outside check mode, over.
C4_Witness ==
    /\ OnExisting /\ VerifiableEqual /\ ~params.check_mode /\ run = "first"
    /\ target.secret_environment_variables #
            SecretList(params.secret_environment_variables)
    /\ DOMAIN params.secret_environment_variables # {}
    /\ pc = "done" /\ ~result.changed

\* C5: in the container module with redeploy true, every PATCH carries the
\* redeploy flag.
C5_PatchCarriesRedeploy ==
    (module = "container" /\ params.redeploy) =>
        \A i \in DOMAIN calls :
            calls[i].method = "PATCH" =>
                /\ "redeploy" \in DOMAIN calls[i].data
                /\ calls[i].data["redeploy"] = TRUE

\* C6: after a run with state=present outside check mode that completed, a
\* second run with the same inputs on the remote the first one left issues no
\* POST, PATCH or DELETE, waits for nothing and reports changed=false.
C6_PresentIsIdempotent ==
    (/\ run = "second" /\ variant = "again"
     /\ params.state = "present" /\ ~params.check_mode) =>
        /\ Methods(calls) \cap (Mutating \cup {"WAIT"}) = {}
        /\ pc \notin {"create", "patch"}
        /\ pc = "done" => ~result.changed

\* C6 witness: the first run patched the resource, the second one is over.
C6_Witness ==
    /\ run = "second" /\ variant = "again"
    /\ params.state = "present" /\ ~params.check_mode
    /\ "PATCH" \in Methods(first.calls) /\ first.result.changed
    /\ pc = "done" /\ ~result.changed

\* C7: state=absent and no listed resource has the wished name: the run
\* returns changed=false with an empty description after the listing alone,
\* in check mode and outside it.
C7_AbsentOfMissingIsNoop ==
    (/\ module \in Managed /\ params.state = "absent" /\ Listed
     /\ params.name \notin ListedNames) =>
        /\ pc = "done" /\ Len(calls) = 1
        /\ ~result.changed /\ DOMAIN result.resource = {}
        /\ remote = cn_list

\* C7 witness: such a run outside check mode, on a listing that holds other
\* resources.
C7_Witness ==
    /\ module \in Managed /\ params.state = "absent" /\ Listed
    /\ params.name \notin ListedNames /\ cn_list # <<>>
    /\ ~params.check_mode /\ pc = "done" /\ ~result.changed

\* C8: in the info modules, a name that no listed resource has ends the run
\* in a failure after the listing alone; a run that succeeds reports
\* changed=false and has issued only GET requests.
C8_InfoMissFailsAndInfoOnlyReads ==
    module \in Info =>
        /\ (Listed /\ params.name \notin ListedNames) =>
                pc = "failed" /\ Len(calls) = 1
        /\ pc = "done" => ~result.changed /\ Methods(calls) = {"GET"}
        /\ remote = listing0

\* C8 witness: an info run that missed the name in a listing of other resources.
C8_Witness ==
    /\ module \in Info /\ Listed /\ params.name \notin ListedNames
    /\ cn_list # <<>> /\ pc = "failed"

\* C9: on the same listing with the same inputs, the changed flag of a
\* check-mode run equals the changed flag of a run outside check mode that
\* completed.
C9_CheckModeChangedIsExact ==
    (run = "second" /\ variant = "check" /\ pc = "done") =>
        result.changed = first.result.changed

\* C9 witness: the check-mode run said changed, the other run patched.
C9_Witness ==
    /\ run = "second" /\ variant = "check" /\ pc = "done"
    /\ first.params.check_mode /\ first.result.changed
    /\ "PATCH" \in Methods(calls) /\ result.changed

\* the responses a run got: ok or not, in order
Outcomes(cs) == [i \in DOMAIN cs |-> cs[i].ok]

\* C10: two runs that differ only in the values of the secret variables, every
\* response of both being ok, give the host the same result and the same
\* warnings.
C10_SecretValuesNeverShow ==
    (/\ run = "second" /\ variant = "secret" /\ pc = "done"
     /\ Outcomes(calls) = Outcomes(first.calls)
     /\ \A i \in DOMAIN calls : calls[i].ok) =>
        /\ result = first.result
        /\ warnings = first.warnings

\* the run deletes a listed resource outside check mode
AbsentOfListed ==
    /\ module \in Managed /\ params.state = "absent" /\ ~params.check_mode
    /\ Listed /\ params.name \in ListedNames

\* C11: state=absent outside check mode on a listed resource: after the
\* listing the calls are, in this order, a forced wait on the target, the
\* DELETE of the target's id and a second wait; the DELETE follows a first
\* wait that returned, the second wait follows a DELETE whose response is ok,
\* and the run returns only after the second wait.
C11_AbsentWaitsDeletesWaits ==
    AbsentOfListed =>
        /\ Len(calls) <= 4
        /\ \A i \in DOMAIN calls : i > 1 => calls[i].path = target.id
        /\ Len(calls) >= 2 =>
                calls[2].method = "WAIT" /\ calls[2].data.force_wait
        /\ Len(calls) >= 3 => calls[3].method = "DELETE" /\ calls[2].ok
        /\ Len(calls) >= 4 =>
                /\ calls[4].method = "WAIT" /\ ~calls[4].data.force_wait
                /\ calls[3].ok
        /\ pc = "done" => Len(calls) = 4 /\ calls[4].ok
        /\ target = cn_lookup(cn_list)[params.name]

\* C11 witness: such a run, over, with its four calls.
C11_Witness ==
    /\ AbsentOfListed /\ run = "first"
    /\ pc = "done" /\ Len(calls) = 4 /\ result.changed

\* the run issued a POST or a PATCH (state=present, outside check mode)
Reconciled == module \in Managed /\ Methods(calls) \cap {"POST", "PATCH"} # {}

\* the id of the resource the run created or patched
ReconciledId ==
    IF "POST" \in Methods(calls) THEN IdOf(Len(cn_list) + 1)
    ELSE cn_lookup(cn_list)[params.name].id

\* C12: state=present outside check mode, a create or an update issued and the
\* run over with success: the last two calls are a wait that returned and then
\* a GET of the id of the resource created or patched, and the description
\* returned is the (filtered) response of that GET: what the provider holds
\* after the wait, not the POST or PATCH response, not the listing's entry.
C12_ReturnsTheReadAfterTheWait ==
    (Reconciled /\ pc = "done") =>
        LET n == Len(calls) IN
        /\ n = 4
        /\ calls[n - 1].method = "WAIT" /\ calls[n - 1].ok
        /\ calls[n - 1].path = ReconciledId
        /\ calls[n].method = "GET" /\ calls[n].path = ReconciledId
        /\ result.resource =
                filter_sensitive_attributes(
                    IF calls[n].ok THEN RemoteRead(remote, ReconciledId)
                    ELSE ErrorJson,
                    SENSITIVE_ATTRIBUTES(module))
        /\ calls[n].ok => result.resource.status \in STABLE_STATES(module)

\* C12 witness: a run that patched a resource and returned what it read.
C12_Witness ==
    /\ Reconciled /\ pc = "done" /\ run = "first"
    /\ "PATCH" \in Methods(calls) /\ calls[4].ok
    /\ result.resource.description # cn_lookup(cn_list)[params.name].description

\* the positions of the run's POST, PATCH and DELETE requests
MutatingCalls == {i \in DOMAIN calls : calls[i].method \in Mutating}

\* C13: a run of the container or function-namespace module issues at most
\* one POST, PATCH or DELETE, and its kind follows from the wished state and
\* the listing: a POST only for present with the name not listed, a PATCH only
\* for present with the name listed, a DELETE only for absent with the name
\* listed.
C13_AtMostOneMutationOfTheRightKind ==
    module \in Managed =>
        /\ Cardinality(MutatingCalls) <= 1
        /\ \A i \in MutatingCalls :
            /\ Listed /\ i > 1
            /\ calls[i].method = "POST" =>
                    params.state = "present" /\ params.name \notin ListedNames
            /\ calls[i].method = "PATCH" =>
                    params.state = "present" /\ params.name \in ListedNames
            /\ calls[i].method = "DELETE" =>
                    params.state = "absent" /\ params.name \in ListedNames

\* C13 witness: a run over after its one POST, on a listing of other names.
C13_Witness ==
    /\ module \in Managed /\ pc = "done" /\ run = "first"
    /\ Cardinality(MutatingCalls) = 1 /\ "POST" \in Methods(calls)
    /\ cn_list # <<>>

\* the fields of the wished container that describe the container, redeploy
\* and the secret variables apart
WishedContainerFields ==
    {"namespace_id", "name", "description", "min_scale", "max_scale",
     "environment_variables", "memory_limit", "timeout", "privacy",
     "registry_image", "max_concurrency", "protocol", "port"}

\* C14: in the container module the body of the creation POST holds no
\* redeploy field, holds every other field of the wished container with the
\* wished value (state, which selects the strategy, is no field of the
\* container), and holds secret_environment_variables as a list with exactly
\* one {key, value} entry for each wished secret variable.
C14_CreationBody ==
    module = "container" =>
        \A i \in DOMAIN calls :
            calls[i].method = "POST" =>
                LET body == calls[i].data
                    wished_cn == wished_container(params)
                    secrets == body.secret_environment_variables
                IN  /\ "redeploy" \notin DOMAIN body
                    /\ DOMAIN body =
                            WishedContainerFields \cup {"secret_environment_variables"}
                    /\ \A f \in WishedContainerFields : body[f] = wished_cn[f]
                    /\ body.timeout = params.container_timeout
                    /\ secrets.type = "array"
                    /\ Len(secrets.array) =
                            Cardinality(DOMAIN wished_cn.secret_environment_variables)
                    /\ \A k \in DOMAIN wished_cn.secret_environment_variables :
                            \E j \in DOMAIN secrets.array :
                                secrets.array[j] =
                                    [key |-> k,
                                     value |-> wished_cn.secret_environment_variables[k]]

\* C14 witness: a container created with redeploy true and two secret variables.
C14_Witness ==
    /\ module = "container" /\ params.redeploy /\ "POST" \in Methods(calls)
    /\ Cardinality(DOMAIN params.secret_environment_variables) = 2
    /\ pc = "done"

\* C15: a run of the container or function-namespace module that returns
\* a success result outside check mode reports changed=true exactly when it
\* issued a POST, PATCH or DELETE.
C15_ChangedIffMutated ==
    (module \in Managed /\ pc = "done" /\ ~params.check_mode) =>
        (result.changed <=> MutatingCalls # {})

\* C15 witness: a run that deleted a resource and reports changed=true; the
\* unchanged side is the witness of C4.
C15_Witness ==
    /\ module \in Managed /\ pc = "done" /\ ~params.check_mode /\ run = "first"
    /\ result.changed /\ "DELETE" \in Methods(calls)

\* the parent the caller declared: namespace_id of a container, project_id of
\* a namespace or registry
WishedParent == params[ParentField(module)]

\* the parent of the listed resource with this id
ParentOf(id) == RemoteRead(cn_list, id)[ParentField(module)]

\* C16: the resource a run selects by name belongs to the declared parent: a
\* resource that is patched or deleted, or that an info run or an unchanged
\* present run reports, has the wished namespace_id (container) or project_id
\* (namespace, registry).
C16_SelectedResourceIsUnderTheWishedParent ==
    /\ \A i \in DOMAIN calls :
            calls[i].method \in {"PATCH", "DELETE"} =>
                ParentOf(calls[i].path) = WishedParent
    /\ (pc = "done" /\ ParentField(module) \in DOMAIN result.resource) =>
            result.resource[ParentField(module)] = WishedParent

====
